---------------------------- MODULE Spec2Model ----------------------------
(***************************************************************************)
(* EmbedWorker (workers/embed_worker/embed_worker.py): a bounded asyncio   *)
(* queue of embedding requests, producers calling add_request, background  *)
(* consumer tasks created by start() running _process_loop, and the direct *)
(* callers process_chunks / process_tables.                                *)
(*                                                                         *)
(* Scheduling is asyncio's: one event loop, a coroutine runs until it      *)
(* awaits something that is not ready.  An action of this module is one    *)
(* such run.  The provider call of _process_batch is kept as a step of its *)
(* own (the consumer is "in flight" between the last dequeue and the       *)
(* provider's answer), which only adds interleavings.                      *)
(*                                                                         *)
(* RAGWorker (workers/rag_worker/rag_worker.py): process_question and the  *)
(* coroutines it runs, plan_answer, retrieve_evidence and generate_answer. *)
(* The two workers share nothing; Spec and FairSpec follow the EmbedWorker *)
(* with the RAGWorker idle, RagSpec the RAGWorker with the EmbedWorker     *)
(* idle.  FairLoopSpec is FairSpec without the direct callers, ChunksSpec  *)
(* is Spec with process_chunks as the only direct caller and longer lists. *)
(***************************************************************************)
EXTENDS Integers, Sequences, FiniteSets, TLC

\* ------------------------------------------------------------- bounds ---
\* EmbedWorker(batch_size, max_queue_size): the constructor's arguments,
\* small here (the defaults are 32 and 1000).
batch_size == 2
max_queue_size == 1
\* Requests accepted by add_request in one behaviour.
MaxRequests == 2
\* add_request calls made between two dequeues.
MaxBurst == 2
\* start() calls that create a consumer task in one behaviour.
MaxTasks == 2
\* chunks / tables handed to process_chunks / process_tables in one call.
MaxChunks == 1
\* chunks handed to process_chunks in one call where the call is studied by
\* itself (ChunksSpec).
MaxChunkList == 2
MaxTables == 1

\* embedding_model = None
None == 0
\* A local of a RAGWorker call that is not bound (yet).
Nothing == [nothing |-> TRUE]

VARIABLES
    request_queue,    \* asyncio.Queue(maxsize = max_queue_size): its items, oldest first (request ids)
    putters,          \* producers suspended inside Queue.put, oldest first (request ids)
    processing,       \* self.processing
    embedding_model,  \* self.embedding_model: None, or the handle of the k-th constructed model
    loadCount,        \* history: SentenceTransformer objects constructed so far
    tasks,            \* the consumer tasks created by start(), in creation order
    nextId,           \* the id of the next request add_request takes in (ids 1, 2, ... in take-in order)
    burst,            \* history: what the add_request calls made since the last dequeue returned
    batched,          \* history: request ids dequeued into a batch, in dequeue order
    processed,        \* history: the batches handed to _process_batch, with what became of each
    encodedWith,      \* history: the values self.embedding_model had at the encode calls made
    lastCall,         \* history: the latest process_chunks / process_tables call that returned embeddings
    \* RAGWorker: the call in progress (or the last one made) and its locals
    question_data,    \* the argument of process_question, with the chunks the caller supplies
    call,             \* which method was called: process_question, retrieve_evidence or generate_answer
    pc,               \* where that call is
    pool,             \* retrieve_evidence's `evidence` after the two extend calls (line 136)
    plan,             \* the plan the call works with
    evidence,         \* the list retrieve_evidence returned / generate_answer was given
    answer,           \* what generate_answer returned
    result,           \* what process_question returned
    visited           \* history: the stages the call has gone through, in order

embedVars == <<request_queue, putters, processing, embedding_model, loadCount, tasks,
               nextId, burst, batched, processed, encodedWith, lastCall>>
ragVars == <<question_data, call, pc, pool, plan, evidence, answer, result, visited>>
vars == <<embedVars, ragVars>>

\* ------------------------------------------------------------ helpers ---
Range(s) == {s[i] : i \in 1..Len(s)}

Min(a, b) == IF a < b THEN a ELSE b

TaskIds == 1..Len(tasks)

\* Python's zip(xs, ys): pairs by position, as many as the shorter list has.
Zip(xs, ys) == [i \in 1..Min(Len(xs), Len(ys)) |-> [req |-> xs[i], emb |-> ys[i]]]

\* The external provider, SentenceTransformer.encode(texts): one vector per
\* text, in input order.  A vector is identified by the text it encodes.
Vec(t) == <<"vec", t>>
Encode(texts) == [i \in 1..Len(texts) |-> Vec(texts[i])]

\* The requests, chunks and tables of a behaviour carry pairwise different
\* texts: request r has text TextOf(r), the i-th chunk of a call ChunkText(i),
\* the i-th table's schema and content texts SchemaText(i) and ContentText(i).
TextOf(r) == <<"request", r>>
ChunkText(i) == <<"chunk", i>>
SchemaText(i) == <<"schema", i>>
ContentText(i) == <<"content", i>>

NoCall == [site |-> "none", texts |-> <<>>, out |-> <<>>, attached |-> <<>>]

\* ------------------------------------------------------ asyncio.Queue ---
\* Queue.full(): a queue built with maxsize <= 0 is never full.  The queue is
\* built with maxsize = max_queue_size (line 37); the mutant builds it one
\* smaller than the bound add_request tests.
QueueFullSmaller(q) == Len(q) >= max_queue_size - 1
QueueFull(q) == max_queue_size > 0 /\ Len(q) >= max_queue_size

\* Queue.get() on a non-empty queue: the oldest item leaves, and the oldest
\* suspended putter (if any) is woken and completes its put.  The mutant's
\* get() returns the oldest item and leaves it in the queue.
QueueAfterPeek(q, ps) == q
QueueAfterGet(q, ps) == IF ps = <<>> THEN Tail(q) ELSE Append(Tail(q), Head(ps))
PuttersAfterGet(ps) == IF ps = <<>> THEN ps ELSE Tail(ps)

\* --------------------------------------------------------------- init ---
Init ==
    /\ request_queue = <<>>
    /\ putters = <<>>
    /\ processing = FALSE
    /\ embedding_model = None
    /\ loadCount = 0
    /\ tasks = <<>>
    /\ nextId = 1
    /\ burst = <<>>
    /\ batched = <<>>
    /\ processed = {}
    /\ encodedWith = {}
    /\ lastCall = NoCall
    /\ question_data = Nothing
    /\ call = "none"
    /\ pc = "idle"
    /\ pool = <<>>
    /\ plan = Nothing
    /\ evidence = <<>>
    /\ answer = Nothing
    /\ result = Nothing
    /\ visited = <<>>

\* -------------------------------------------------- _load_embedding_model
\* The guard of line 270; the mutant constructs unconditionally.
NeedsLoadAlways(model) == TRUE
NeedsLoad(model) == model = None

\* The outcomes the constructor call can have: it returns (TRUE) or raises
\* (FALSE); when the guard skips the call there is nothing to fail.
LoadOutcomes(model) == IF NeedsLoad(model) THEN BOOLEAN ELSE {TRUE}

\* The outcomes of encode: it returns (TRUE) or raises (FALSE); it is not
\* reached when the load raised.
EncodeOutcomes(raised) == IF raised THEN {FALSE} ELSE BOOLEAN

\* ok: whether SentenceTransformer(...) returns (TRUE) or raises (FALSE).
\* Gives the handle, the construction count and whether the call raised.
LoadEmbeddingModel(model, count, ok) ==
    IF NeedsLoad(model)
    THEN IF ok THEN [model |-> count + 1, count |-> count + 1, raised |-> FALSE]
               ELSE [model |-> model, count |-> count, raised |-> TRUE]
    ELSE [model |-> model, count |-> count, raised |-> FALSE]

\* ------------------------------------------------------------ add_request
\* The test of line 59; the mutant is the off-by-one comparison.
AtCapacityStrict(q) == Len(q) > max_queue_size
AtCapacity(q) == Len(q) >= max_queue_size

\* One add_request call, whole: it has no suspension point unless put() finds
\* the queue full, and then the caller stays suspended in put() ("pending").
\* A rejected request is dropped by the caller and takes no id.  The handler
\* of lines 66-69 is not reached: put() on an asyncio.Queue raises nothing.
AddRequest ==
    /\ Len(burst) < MaxBurst
    /\ AtCapacity(request_queue) \/ nextId <= MaxRequests
    /\ IF AtCapacity(request_queue)
       THEN /\ burst' = Append(burst, "False")
            /\ UNCHANGED <<request_queue, putters, nextId>>
       ELSE /\ nextId' = nextId + 1
            /\ IF QueueFull(request_queue)
               THEN /\ burst' = Append(burst, "pending")
                    /\ putters' = Append(putters, nextId)
                    /\ UNCHANGED request_queue
               ELSE /\ burst' = Append(burst, "True")
                    /\ request_queue' = Append(request_queue, nextId)
                    /\ UNCHANGED putters
    /\ UNCHANGED <<processing, embedding_model, loadCount, tasks,
                   batched, processed, encodedWith, lastCall>>
    /\ UNCHANGED ragVars

\* ------------------------------------------------------------ start, stop
\* pc: where the coroutine is suspended.  stopPending (history): stop() was
\* called during the task's current iteration of the loop.
NewTask == [pc |-> "start", batch |-> <<>>, stopPending |-> FALSE]

Start ==
    /\ Len(tasks) < MaxTasks
    /\ \E ok \in LoadOutcomes(embedding_model) :
         LET m == LoadEmbeddingModel(embedding_model, loadCount, ok)
         IN  /\ processing' = TRUE
             /\ embedding_model' = m.model
             /\ loadCount' = m.count
             /\ tasks' = IF m.raised THEN tasks ELSE Append(tasks, NewTask)
    /\ UNCHANGED <<request_queue, putters, nextId, burst, batched, processed, encodedWith, lastCall>>
    /\ UNCHANGED ragVars

Stop ==
    /\ processing' = FALSE
    /\ tasks' = [c \in TaskIds |->
                   IF tasks[c].pc \in {"wait_first", "fill", "process", "backoff"}
                   THEN [tasks[c] EXCEPT !.stopPending = TRUE]
                   ELSE tasks[c]]
    /\ UNCHANGED <<request_queue, putters, embedding_model, loadCount, nextId,
                   burst, batched, processed, encodedWith, lastCall>>
    /\ UNCHANGED ragVars

\* ----------------------------------------------------------- _process_loop
\* Control is back at `while self.processing` (line 200): the next iteration
\* starts with an empty batch, or the coroutine returns.
LoopTop(t) ==
    IF processing
    THEN [pc |-> "wait_first", batch |-> <<>>, stopPending |-> FALSE]
    ELSE [pc |-> "done", batch |-> <<>>, stopPending |-> FALSE]

\* After an append to the batch: the test of `while len(batch) < batch_size`.
\* The mutant tests `<=`.
AfterAppendOneMore(b) == IF Len(b) <= batch_size THEN "fill" ELSE "process"
AfterAppend(b) == IF Len(b) < batch_size THEN "fill" ELSE "process"

\* What a dequeue does to the queue and to the histories.
Dequeue ==
    /\ request_queue' = QueueAfterGet(request_queue, putters)
    /\ putters' = PuttersAfterGet(putters)
    /\ batched' = Append(batched, Head(request_queue))
    /\ burst' = <<>>
    /\ UNCHANGED nextId

\* The first step of a task made by asyncio.create_task(self._process_loop()).
TaskBegin(c) ==
    /\ tasks[c].pc = "start"
    /\ tasks' = [tasks EXCEPT ![c] = LoopTop(@)]
    /\ UNCHANGED <<request_queue, putters, processing, embedding_model, loadCount,
                   nextId, burst, batched, processed, encodedWith, lastCall>>
    /\ UNCHANGED ragVars

\* wait_for(self.request_queue.get(), timeout=1.0) returns an item (208-211).
BatchAfterFirst(q) == <<Head(q)>>

GetFirst(c) ==
    /\ tasks[c].pc = "wait_first"
    /\ request_queue # <<>>
    /\ LET b == BatchAfterFirst(request_queue)
       IN  tasks' = [tasks EXCEPT ![c] = [@ EXCEPT !.batch = b, !.pc = AfterAppend(b)]]
    /\ Dequeue
    /\ UNCHANGED <<processing, embedding_model, loadCount, processed, encodedWith, lastCall>>
    /\ UNCHANGED ragVars

\* ... or times out with nothing queued: `continue` (212-213).
FirstTimeout(c) ==
    /\ tasks[c].pc = "wait_first"
    /\ request_queue = <<>>
    /\ tasks' = [tasks EXCEPT ![c] = LoopTop(@)]
    /\ UNCHANGED <<request_queue, putters, processing, embedding_model, loadCount,
                   nextId, burst, batched, processed, encodedWith, lastCall>>
    /\ UNCHANGED ragVars

\* wait_for(self.request_queue.get(), timeout=0.1) returns an item (216-221).
BatchAfterMore(b, q) == Append(b, Head(q))

GetMore(c) ==
    /\ tasks[c].pc = "fill"
    /\ request_queue # <<>>
    /\ LET b == BatchAfterMore(tasks[c].batch, request_queue)
       IN  tasks' = [tasks EXCEPT ![c] = [@ EXCEPT !.batch = b, !.pc = AfterAppend(b)]]
    /\ Dequeue
    /\ UNCHANGED <<processing, embedding_model, loadCount, processed, encodedWith, lastCall>>
    /\ UNCHANGED ragVars

\* ... or times out with nothing queued: `break` (222-223), then `if batch`.
FillTimeout(c) ==
    /\ tasks[c].pc = "fill"
    /\ request_queue = <<>>
    /\ tasks' = [tasks EXCEPT ![c].pc = "process"]
    /\ UNCHANGED <<request_queue, putters, processing, embedding_model, loadCount,
                   nextId, burst, batched, processed, encodedWith, lastCall>>
    /\ UNCHANGED ragVars

\* ---------------------------------------------------------- _process_batch
\* texts = [req.text for req in batch]; the mutant lists them back to front.
BatchTextsReversed(batch) ==
    [i \in 1..Len(batch) |-> TextOf(batch[Len(batch) + 1 - i])]
\* Another mutant hands over the first text only.
BatchTextsFirstOnly(batch) == <<TextOf(batch[1])>>
BatchTexts(batch) == [i \in 1..Len(batch) |-> TextOf(batch[i])]

\* for req, embedding in zip(batch, embeddings): log "Embedding generated".
LoggedPairs(batch, embeddings) == Zip(batch, embeddings)

\* The handler of lines 234-236 when the batch's provider call raised: the
\* error is logged, nothing goes back to the queue, asyncio.sleep(1).  The
\* mutants put the batch back for a retry, or empty the queue.
RequeueAfterFailure(q, batch) == q \o batch
ClearAfterFailure(q, batch) == <<>>
QueueAfterFailure(q, batch) == q
\* A further mutant has no handler in the loop: the error ends the task.
PcAfterFailureEnds == "done"
PcAfterFailure == "backoff"

\* _process_batch -> _get_embeddings: the model is loaded if needed, encode is
\* called once with the batch's texts, and each request is logged with the
\* embedding at its position.  loadOk / encOk: whether the constructor and
\* encode return or raise.  The record added to `processed` says whether
\* encode was called and with which texts, what it returned, the "Embedding
\* generated" entries logged, and whether "Batch processing failed" was logged.
ProcessBatch(c) ==
    /\ tasks[c].pc = "process"
    /\ \E loadOk \in LoadOutcomes(embedding_model) :
       \E encOk \in EncodeOutcomes(LoadEmbeddingModel(embedding_model, loadCount, loadOk).raised) :
         LET batch == tasks[c].batch
             texts == BatchTexts(batch)
             m     == LoadEmbeddingModel(embedding_model, loadCount, loadOk)
             out   == IF encOk THEN Encode(texts) ELSE <<>>
             pairs == LoggedPairs(batch, out)
         IN  /\ embedding_model' = m.model
             /\ loadCount' = m.count
             /\ encodedWith' = IF m.raised THEN encodedWith
                               ELSE encodedWith \cup {m.model}
             /\ processed' = processed \cup
                    {[batch  |-> batch,
                      called |-> ~m.raised,
                      texts  |-> IF m.raised THEN <<>> ELSE texts,
                      out    |-> out,
                      logged |-> pairs,
                      error  |-> m.raised \/ ~encOk]}
             /\ IF ~m.raised /\ encOk
                THEN /\ tasks' = [tasks EXCEPT ![c] = LoopTop(@)]
                     /\ UNCHANGED request_queue
                ELSE /\ request_queue' = QueueAfterFailure(request_queue, batch)
                     /\ tasks' = [tasks EXCEPT ![c].pc = PcAfterFailure]
    /\ UNCHANGED <<putters, processing, nextId, burst, batched, lastCall>>
    /\ UNCHANGED ragVars

\* asyncio.sleep(1) is over and the handler of lines 234-236 falls through to
\* the loop test.  The mutant's handler re-raises after the sleep, as the
\* handlers of _process_batch and _get_embeddings do, which ends the task.
AfterBackoffRaises(t) == [pc |-> "done", batch |-> <<>>, stopPending |-> FALSE]
AfterBackoff(t) == LoopTop(t)

BackoffEnd(c) ==
    /\ tasks[c].pc = "backoff"
    /\ tasks' = [tasks EXCEPT ![c] = AfterBackoff(@)]
    /\ UNCHANGED <<request_queue, putters, processing, embedding_model, loadCount,
                   nextId, burst, batched, processed, encodedWith, lastCall>>
    /\ UNCHANGED ragVars

Consumer(c) ==
    \/ TaskBegin(c)
    \/ GetFirst(c)
    \/ FirstTimeout(c)
    \/ GetMore(c)
    \/ FillTimeout(c)
    \/ ProcessBatch(c)
    \/ BackoffEnd(c)

\* ------------------------------------------ process_chunks, process_tables
\* _process_embeddings(requests) for a non-empty list: load, one encode call.
\* `attached` pairs each chunk or table index with the embeddings set on it
\* when encode returns; lastCall keeps the call when it returned (a call that
\* raises returns nothing).
DirectCall(site, texts, attached, loadOk, encOk) ==
    LET m   == LoadEmbeddingModel(embedding_model, loadCount, loadOk)
        out == IF encOk THEN Encode(texts) ELSE <<>>
    IN  /\ embedding_model' = m.model
        /\ loadCount' = m.count
        /\ encodedWith' = IF m.raised THEN encodedWith ELSE encodedWith \cup {m.model}
        /\ lastCall' = IF m.raised \/ ~encOk THEN lastCall
                       ELSE [site |-> site, texts |-> texts, out |-> out,
                             attached |-> attached]

\* for chunk, embedding in zip(chunks, embeddings): chunk['embedding'] = ...
\* The mutant sets the embeddings on the chunks back to front.
AttachChunksReversed(chunks, embeddings) ==
    Zip([i \in 1..Len(chunks) |-> i],
        [i \in 1..Len(embeddings) |-> embeddings[Len(embeddings) + 1 - i]])
AttachChunks(chunks, embeddings) == Zip([i \in 1..Len(chunks) |-> i], embeddings)

\* What a process_chunks call with an empty or missing list leaves behind:
\* chunks_data is returned as it came (lines 86-88), nothing was encoded.
EmptyChunksCall == [site |-> "chunks", texts |-> <<>>, out |-> <<>>, attached |-> <<>>]

\* process_chunks with a list of up to `limit` chunks.  `afterEmpty` is what
\* the history lastCall holds after a call with an empty list.
ProcessChunksUpTo(limit, afterEmpty) ==
    /\ \E n \in 0..limit :
       \E loadOk \in LoadOutcomes(embedding_model) :
       \E encOk \in EncodeOutcomes(LoadEmbeddingModel(embedding_model, loadCount, loadOk).raised) :
         LET chunks == [i \in 1..n |-> ChunkText(i)] IN
         IF chunks = <<>>
         THEN /\ lastCall' = afterEmpty
              /\ UNCHANGED <<embedding_model, loadCount, encodedWith>>
         ELSE DirectCall("chunks", chunks, AttachChunks(chunks, Encode(chunks)),
                         loadOk, encOk)
    /\ UNCHANGED <<request_queue, putters, processing, tasks, nextId, burst,
                   batched, processed>>
    /\ UNCHANGED ragVars

\* Among the other operations the history keeps only the calls that returned
\* embeddings.
ProcessChunks == ProcessChunksUpTo(MaxChunks, lastCall)

\* By itself the call is also kept when its list was empty.
ProcessChunksCall == ProcessChunksUpTo(MaxChunkList, EmptyChunksCall)

\* One schema request and one content request per table, in table order; a
\* table is given by the texts _table_schema_to_text and
\* _table_content_to_text make of it.
TableTexts(tables) ==
    [k \in 1..(2 * Len(tables)) |->
        IF k % 2 = 1 THEN tables[(k + 1) \div 2].schema ELSE tables[k \div 2].data]

\* table i gets embeddings[2i] and embeddings[2i+1] (0-based), lines 179-184.
AttachTables(tables, embeddings) ==
    [i \in 1..Len(tables) |->
        [req |-> i, emb |-> <<embeddings[2 * i - 1], embeddings[2 * i]>>]]

ProcessTables ==
    /\ \E n \in 0..MaxTables :
       \E loadOk \in LoadOutcomes(embedding_model) :
       \E encOk \in EncodeOutcomes(LoadEmbeddingModel(embedding_model, loadCount, loadOk).raised) :
         LET tables == [i \in 1..n |-> [schema |-> SchemaText(i), data |-> ContentText(i)]] IN
         IF tables = <<>>
         THEN UNCHANGED <<embedding_model, loadCount, encodedWith, lastCall>>
         ELSE DirectCall("tables", TableTexts(tables),
                         AttachTables(tables, Encode(TableTexts(tables))),
                         loadOk, encOk)
    /\ UNCHANGED <<request_queue, putters, processing, tasks, nextId, burst,
                   batched, processed>>
    /\ UNCHANGED ragVars

\* =============================================================== RAGWorker
\* RAGWorker (workers/rag_worker/rag_worker.py): process_question runs
\* plan_answer, retrieve_evidence and generate_answer in turn; the three are
\* public coroutines and are also called on their own.  None of them awaits
\* anything that suspends and they share no state, so one call at a time is
\* followed, stage by stage.  Scores are in hundredths (0.85 is 85), averages
\* and confidences are fractions num/den of hundredths.

\* plan_answer's literals (lines 81, 83), the cap of line 187, the slice of
\* line 174.
DefaultMaxEvidence == 5
DefaultThreshold == 70
ConfidenceCap == 95
SnippetMax == 200

\* Items in text_evidence / table_evidence when retrieve_evidence sorts, and
\* in the list a caller hands to generate_answer.
MaxTextEvidence == 2
MaxTableEvidence == 1
MaxEvidenceGiven == 2

Absent == ""

Max(a, b) == IF a > b THEN a ELSE b
Frac(n, d) == [num |-> n, den |-> d]
FracLess(f, g) == f.num * g.den < g.num * f.den
FracEq(f, g) == f.num * g.den = g.num * f.den

\* An evidence item.  document_id k stands for 'doc-k'; id is the item's
\* chunk_id or table_id; content is the string `text` cut to `len` characters.
Candidate(type, doc, id, page, score, len) ==
    [type |-> type, document_id |-> doc, id |-> id, page |-> page,
     score |-> score, content |-> [text |-> id, len |-> len]]

\* The items the source puts in text_evidence (101-120) and table_evidence
\* (123-133) where retrieval from the database is to come (line 97) ...
Chunk1 == Candidate("text_chunk", 1, "chunk-1", 1, 85, 60)
Chunk2 == Candidate("text_chunk", 1, "chunk-2", 3, 72, 51)
Table1 == Candidate("table", 1, "table-1", 5, 68, 17)
\* ... and other items the database can hold: one that ties with chunk-2,
\* one with the top score and a long content, one without relevance.
Chunk3 == Candidate("text_chunk", 2, "chunk-3", 1, 72, 200)
Chunk4 == Candidate("text_chunk", 2, "chunk-4", 2, 100, 201)
Table2 == Candidate("table", 2, "table-2", 4, 0, 250)
Chunk5 == Candidate("text_chunk", 1, "chunk-5", 2, 30, 23)

TextCandidates == {Chunk1, Chunk2, Chunk3, Chunk4, Chunk5}
TableCandidates == {Table1, Table2}

\* The lists of at most n different items of S, in every order.
ListsOf(S, n) ==
    UNION {{s \in [1..k -> S] : \A i, j \in 1..k : i # j => s[i] # s[j]} : k \in 0..n}

\* What the two lists hold when they are gathered.  <<Chunk1, Chunk2>> and
\* <<Table1>> are the values the source has in place of the retrieval.
TextEvidence == ListsOf(TextCandidates, MaxTextEvidence)
TableEvidence == ListsOf(TableCandidates, MaxTableEvidence)
\* The lists a caller hands to generate_answer.
EvidenceGiven == ListsOf(TextCandidates \cup TableCandidates, MaxEvidenceGiven)

\* ------------------------------------------------------------- plan_answer
PlanWith(k, threshold) ==
    [approach |-> "hybrid_retrieval",
     evidence_types |-> <<"text_chunks", "tables", "figures">>,
     max_evidence |-> k,
     citation_strategy |-> "evidence_gating",
     confidence_threshold |-> threshold]

\* The plan of lines 78-84: nothing of the question enters it.
PlanAnswer == PlanWith(DefaultMaxEvidence, DefaultThreshold)

\* The plan dicts a caller of retrieve_evidence / generate_answer passes.
Plans == {PlanWith(k, th) : k \in {-1, 0, 1, 2, DefaultMaxEvidence},
                            th \in {0, DefaultThreshold}}

\* ------------------------------------------------------- retrieve_evidence
\* key=lambda x: x['score'] (line 139).
SortKey(ev) == ev.score

\* list.sort(key=..., reverse=True) is stable: an item goes behind every item
\* of a key at least its own that was in the list before it.  The mutant
\* leaves out reverse=True.
GoesBehindAscending(x, y) == SortKey(y) <= SortKey(x)
GoesBehind(x, y) == SortKey(y) >= SortKey(x)

RECURSIVE InsertSorted(_, _)
InsertSorted(sorted, x) ==
    IF sorted = <<>> THEN <<x>>
    ELSE IF GoesBehind(x, Head(sorted))
         THEN <<Head(sorted)>> \o InsertSorted(Tail(sorted), x)
         ELSE <<x>> \o sorted

RECURSIVE SortByScore(_)
SortByScore(list) ==
    IF list = <<>> THEN <<>>
    ELSE InsertSorted(SortByScore(SubSeq(list, 1, Len(list) - 1)), list[Len(list)])

\* list[:k] (line 142): the first k items, and for a negative k all but the
\* last -k.
Slice(list, k) ==
    IF k >= 0 THEN SubSeq(list, 1, Min(k, Len(list)))
    ELSE SubSeq(list, 1, Max(Len(list) + k, 0))

\* evidence.extend(text_evidence); evidence.extend(table_evidence) (135-136).
Gather(text_evidence, table_evidence) == text_evidence \o table_evidence

\* Lines 138-144: sort, limit, return.
RetrieveEvidence(gathered, p) == Slice(SortByScore(gathered), p.max_evidence)

\* --------------------------------------------------------- generate_answer
\* `if not evidence` (line 156): the one test made before synthesis.  The
\* mutant leaves the test out.
EvidenceMissingNever(ev) == FALSE
EvidenceMissing(ev) == ev = <<>>

\* Lines 157-165.
InsufficientAnswer ==
    [text |-> "I cannot provide a reliable answer based on the available evidence. Please ensure you have uploaded relevant documents.",
     confidence |-> Frac(0, 1),
     citations |-> <<>>,
     reasoning |-> [approach |-> "insufficient_evidence", evidence_count |-> 0]]

\* ev['content'][:200] + '...' if len(ev['content']) > 200 else ev['content']
Snippet(content) ==
    IF content.len > SnippetMax
    THEN [text |-> content.text, len |-> SnippetMax, ellipsis |-> TRUE]
    ELSE [text |-> content.text, len |-> content.len, ellipsis |-> FALSE]

\* Lines 170-181.
Citation(ev) ==
    [type |-> ev.type, document_id |-> ev.document_id, page |-> ev.page,
     snippet |-> Snippet(ev.content), score |-> ev.score,
     chunk_id |-> IF ev.type = "text_chunk" THEN ev.id ELSE Absent,
     table_id |-> IF ev.type = "table" THEN ev.id ELSE Absent]

\* for ev in evidence: ... citations.append(citation)
Citations(ev) == [i \in 1..Len(ev) |-> Citation(ev[i])]

RECURSIVE SumScores(_)
SumScores(ev) == IF ev = <<>> THEN 0 ELSE ev[1].score + SumScores(Tail(ev))

\* sum(...) / len(evidence) (line 186), for a non-empty list.
AvgScore(ev) == Frac(SumScores(ev), Len(ev))

\* min(avg_score, 0.95) (line 187).  The mutant has no cap.
CapConfidenceNone(avg) == avg
CapConfidence(avg) == IF FracLess(Frac(ConfidenceCap, 1), avg) THEN Frac(ConfidenceCap, 1) ELSE avg

\* _generate_answer_text for a non-empty list: the opening with the question,
\* one part per item, the closing.
AnswerText(ev) ==
    <<"Based on the available evidence">> \o
    [i \in 1..Len(ev) |-> ev[i].id] \o
    <<"Please refer to the citations">>

\* Lines 167-202.
SynthesizedAnswer(ev, p) ==
    [text |-> AnswerText(ev),
     confidence |-> CapConfidence(AvgScore(ev)),
     citations |-> Citations(ev),
     reasoning |-> [approach |-> p.approach,
                    evidence_count |-> Len(ev),
                    evidence_types |-> {ev[i].type : i \in 1..Len(ev)},
                    avg_evidence_score |-> AvgScore(ev)]]

\* ---------------------------------------------------------------- the calls
Idle == pc \in {"idle", "returned", "raised"}

\* A call begins: the locals of the call before it are gone.
NewCall(method, at, p, ev, qd) ==
    /\ question_data' = qd
    /\ call' = method
    /\ pc' = at
    /\ plan' = p
    /\ evidence' = ev
    /\ pool' = <<>>
    /\ answer' = Nothing
    /\ result' = Nothing
    /\ visited' = <<>>

\* The ids of the chunks a caller supplies with the question: none, the two
\* chunks the placeholder retrieval returns (lines 101-120), or another one.
SuppliedChunks == {{}, {"chunk-1", "chunk-2"}, {"chunk-7"}}

\* process_question(question_data), lines 34-39: with a dict the call goes on
\* to plan_answer; with anything else question_data.get raises, in the try
\* block and again in the handler.
ProcessQuestionCall ==
    /\ Idle
    /\ \/ \E chunks \in SuppliedChunks :
              NewCall("process_question", "plan", Nothing, <<>>, [chunks |-> chunks])
       \/ NewCall("process_question", "raised", Nothing, <<>>, Nothing)
    /\ UNCHANGED embedVars

RetrieveEvidenceCall ==
    /\ Idle
    /\ \E p \in Plans : NewCall("retrieve_evidence", "retrieve", p, <<>>, Nothing)
    /\ UNCHANGED embedVars

GenerateAnswerCall ==
    /\ Idle
    /\ \E ev \in EvidenceGiven : \E p \in Plans : NewCall("generate_answer", "gate", p, ev, Nothing)
    /\ UNCHANGED embedVars

\* Line 42.
PlanStep ==
    /\ pc = "plan"
    /\ plan' = PlanAnswer
    /\ visited' = Append(visited, "PLAN")
    /\ pc' = "retrieve"
    /\ UNCHANGED <<question_data, call, pool, evidence, answer, result>>
    /\ UNCHANGED embedVars

\* Line 45, or the whole of a retrieve_evidence call.
RetrieveStep ==
    /\ pc = "retrieve"
    /\ \E text_evidence \in TextEvidence : \E table_evidence \in TableEvidence :
         /\ pool' = Gather(text_evidence, table_evidence)
         /\ evidence' = RetrieveEvidence(Gather(text_evidence, table_evidence), plan)
    /\ visited' = Append(visited, "RETRIEVE")
    /\ pc' = IF call = "retrieve_evidence" THEN "returned" ELSE "gate"
    /\ UNCHANGED <<question_data, call, plan, answer, result>>
    /\ UNCHANGED embedVars

\* Line 48 -> line 156.
GateStep ==
    /\ pc = "gate"
    /\ visited' = Append(visited, "GATE")
    /\ pc' = IF EvidenceMissing(evidence) THEN "insufficient" ELSE "synthesize"
    /\ UNCHANGED <<question_data, call, pool, plan, evidence, answer, result>>
    /\ UNCHANGED embedVars

\* Where a call is once generate_answer has its answer.  The mutant's
\* process_question goes back to the retrieval with the answer in hand.
AfterAnswerRetry == IF call = "generate_answer" THEN "returned" ELSE "retrieve"
AfterAnswer == IF call = "generate_answer" THEN "returned" ELSE "build"

InsufficientStep ==
    /\ pc = "insufficient"
    /\ answer' = InsufficientAnswer
    /\ visited' = Append(visited, "INSUFFICIENT_EVIDENCE")
    /\ pc' = AfterAnswer
    /\ UNCHANGED <<question_data, call, pool, plan, evidence, result>>
    /\ UNCHANGED embedVars

\* Lines 167-202; on an empty list the division of line 186 raises, the
\* handlers of lines 204-206 and 66-70 log and raise again.
SynthesizeStep ==
    /\ pc = "synthesize"
    /\ visited' = Append(visited, "SYNTHESIZE")
    /\ IF Len(evidence) = 0
       THEN pc' = "raised" /\ UNCHANGED answer
       ELSE pc' = AfterAnswer /\ answer' = SynthesizedAnswer(evidence, plan)
    /\ UNCHANGED <<question_data, call, pool, plan, evidence, result>>
    /\ UNCHANGED embedVars

\* Lines 50-64.
BuildResult ==
    /\ pc = "build"
    /\ result' = [answer |-> answer.text,
                  confidence |-> answer.confidence,
                  citations |-> answer.citations,
                  reasoning |-> answer.reasoning,
                  evidence_used |-> Len(evidence)]
    /\ pc' = "returned"
    /\ UNCHANGED <<question_data, call, pool, plan, evidence, answer, visited>>
    /\ UNCHANGED embedVars

RagNext ==
    \/ ProcessQuestionCall
    \/ RetrieveEvidenceCall
    \/ GenerateAnswerCall
    \/ PlanStep
    \/ RetrieveStep
    \/ GateStep
    \/ InsufficientStep
    \/ SynthesizeStep
    \/ BuildResult

\* ---------------------------------------------------------- specification
Next ==
    \/ AddRequest
    \/ Start
    \/ Stop
    \/ \E c \in TaskIds : Consumer(c)
    \/ ProcessChunks
    \/ ProcessTables

Spec == Init /\ [][Next]_vars

\* The RAGWorker's calls on their own.
RagSpec == Init /\ [][RagNext]_vars

\* The event loop runs every task that is ready, and the timeouts of wait_for
\* and asyncio.sleep(1) expire: a consumer step that stays possible is taken.
ConsumerStep(c) == c \in TaskIds /\ Consumer(c)
FairSpec == Spec /\ \A c \in 1..MaxTasks : WF_vars(ConsumerStep(c))

\* The producers, start(), stop() and the consumer tasks without the direct
\* calls process_chunks and process_tables, which touch neither the queue nor
\* the tasks; with the same fairness as FairSpec.
LoopNext ==
    \/ AddRequest
    \/ Start
    \/ Stop
    \/ \E c \in TaskIds : Consumer(c)

FairLoopSpec ==
    Init /\ [][LoopNext]_vars /\ \A c \in 1..MaxTasks : WF_vars(ConsumerStep(c))

\* process_chunks called while producers and consumers use the queue.
ChunksNext ==
    \/ AddRequest
    \/ Start
    \/ Stop
    \/ \E c \in TaskIds : Consumer(c)
    \/ ProcessChunksCall

ChunksSpec == Init /\ [][ChunksNext]_vars

\* ----------------------------------------------------- derived notions ---
Live(c) == tasks[c].pc # "done"
Running(c) == tasks[c].pc \in {"wait_first", "fill", "process", "backoff"}
Accepted == 1..(nextId - 1)
Count(seq, v) == Cardinality({i \in 1..Len(seq) : seq[i] = v})
\* Queue length at the last dequeue (or at construction).
BurstBase == Len(request_queue) - Count(burst, "True")
\* The "Embedding generated" entries, and the requests they are about.
Results == UNION {Range(b.logged) : b \in processed}
ResultReqs == {p.req : p \in Results}
\* The requests of the batches whose failure was logged.
Failed == UNION {Range(b.batch) : b \in {x \in processed : x.error}}
InBatch(r) == \E c \in TaskIds : tasks[c].pc \in {"fill", "process"} /\ r \in Range(tasks[c].batch)

\* ================================================================ C1 ===
\* C1: the queue never holds more than max_queue_size requests, and an
\* add_request call made while it holds max_queue_size returns False and
\* leaves the queue (and the set of suspended putters) unchanged.
C1_Backpressure ==
    /\ [](Len(request_queue) <= max_queue_size)
    /\ [][(Len(burst') = Len(burst) + 1 /\ Len(request_queue) >= max_queue_size)
            => /\ burst'[Len(burst')] = "False"
               /\ request_queue' = request_queue
               /\ putters' = putters]_vars

\* A call was made against a queue holding max_queue_size items, with a
\* consumer task alive.
C1_Witness ==
    /\ Len(request_queue) = max_queue_size
    /\ burst # <<>> /\ burst[Len(burst)] = "False"
    /\ \E c \in TaskIds : Running(c)

\* ================================================================ C2 ===
\* C2: add_request never suspends: no caller is ever waiting inside put(),
\* every call has returned True or False.
C2_NeverBlocks ==
    /\ putters = <<>>
    /\ \A i \in 1..Len(burst) : burst[i] \in {"True", "False"}

\* Calls were made below capacity and at capacity, after a dequeue.
C2_Witness ==
    /\ batched # <<>>
    /\ Count(burst, "True") > 0
    /\ Count(burst, "False") > 0

\* ================================================================ C3 ===
\* C3: of the calls made since the last dequeue, call i returns True exactly
\* when the queue then holds fewer than max_queue_size items; from an empty
\* queue exactly the first max_queue_size calls return True and all later
\* ones False.
C3_RejectionExact ==
    /\ \A i \in 1..Len(burst) :
         burst[i] = IF BurstBase + i <= max_queue_size THEN "True" ELSE "False"
    /\ BurstBase = 0 =>
         /\ Count(burst, "True") = Min(Len(burst), max_queue_size)
         /\ Count(burst, "False") = Len(burst) - Min(Len(burst), max_queue_size)

\* MaxBurst > max_queue_size calls in a row on an empty queue.
C3_Witness ==
    /\ BurstBase = 0
    /\ Len(burst) = MaxBurst
    /\ MaxBurst > max_queue_size
    /\ Count(burst, "False") = MaxBurst - max_queue_size

\* ================================================================ C4 ===
\* C4: in every batch handed to the provider, the text at position i is the
\* text of the i-th request dequeued into the batch, and the embedding logged
\* for that request is the provider's i-th output.
C4_OrderPreserved ==
    /\ \A b \in processed :
         /\ b.called => /\ Len(b.texts) = Len(b.batch)
                        /\ \A i \in 1..Len(b.batch) : b.texts[i] = TextOf(b.batch[i])
         /\ ~b.error => /\ Len(b.logged) = Len(b.batch)
                        /\ \A i \in 1..Len(b.batch) :
                             b.logged[i] = [req |-> b.batch[i], emb |-> b.out[i]]
    /\ \A c \in TaskIds : \A i, j \in 1..Len(tasks[c].batch) :
         i < j => tasks[c].batch[i] < tasks[c].batch[j]

\* A batch of two requests went through the provider.
C4_Witness ==
    \E b \in processed : Len(b.batch) >= 2 /\ ~b.error /\ Len(b.logged) >= 2

\* ================================================================ C5 ===
\* C5: the requests of a batch whose provider call raised are not in the
\* queue, not in any batch being collected or processed, and get no result
\* later; and a consumer task ends only when it finds self.processing False,
\* so the failure leaves it running.
C5_FailedBatchDropped ==
    /\ [](\A r \in Failed :
            /\ r \notin Range(request_queue)
            /\ ~InBatch(r)
            /\ r \notin ResultReqs
            /\ Cardinality({b \in processed : r \in Range(b.batch)}) = 1)
    /\ [][\A c \in TaskIds :
            /\ (tasks[c].pc = "process" /\ tasks'[c].pc # "process" /\ processed' # processed
                /\ \E b \in processed' \ processed : b.error)
                 => tasks'[c].pc = "backoff"
            /\ (Live(c) /\ ~Live(c)') => ~processing]_vars

\* The worker's one consumer, after a batch of its own failed, is collecting
\* or processing a new batch while the worker runs on.
C5_Witness ==
    \E c \in TaskIds :
        /\ tasks[c].pc \in {"fill", "process"}
        /\ Failed # {}
        /\ Len(tasks) = 1
        /\ processing

\* ================================================================ C6 ===
\* C6: the step in which a batch fails leaves the queue as it is; add_request
\* made while a consumer backs off is accepted whenever the queue is below
\* capacity; and a request that is queued while a consumer backs off is
\* dequeued into a batch, unless stop() is called first.
C6_FailureIsolation ==
    /\ [][(\E c \in TaskIds : tasks[c].pc = "process" /\ tasks'[c].pc = "backoff")
            => request_queue' = request_queue]_vars
    /\ [][((\E c \in TaskIds : tasks[c].pc = "backoff")
             /\ Len(burst') = Len(burst) + 1
             /\ Len(request_queue) < max_queue_size)
            => request_queue' = Append(request_queue, nextId)]_vars
    /\ \A r \in 1..MaxRequests :
         ((\E c \in TaskIds : tasks[c].pc = "backoff") /\ r \in Range(request_queue))
            ~> (r \in Range(batched) \/ ~processing)

\* The worker's one consumer backs off after a failed batch while a request
\* accepted since its last dequeue waits in the queue.
C6_Witness ==
    /\ processing
    /\ Len(tasks) = 1
    /\ tasks[1].pc = "backoff"
    /\ Failed # {}
    /\ request_queue # <<>>
    /\ burst # <<>> /\ burst[Len(burst)] = "True"

\* ================================================================ C7 ===
\* C7: once the worker is stopped and its consumer tasks have ended, every
\* request add_request accepted has an embedding logged or belongs to a batch
\* whose failure was logged.
C7_NoSilentLoss ==
    (tasks # <<>> /\ ~processing /\ \A c \in TaskIds : ~Live(c))
        => \A r \in Accepted : r \in ResultReqs \/ r \in Failed

\* ================================================================ C8 ===
\* C8: a consumer that is in an iteration of its loop when stop() is called
\* (collecting a batch, waiting for the provider or backing off) ends at its
\* next test of self.processing: it does not begin another iteration.
C8_StopEndsConsumer ==
    [][\A c \in TaskIds :
         tasks[c].stopPending => (tasks'[c].stopPending \/ ~Live(c)')]_vars

\* ================================================================ C9 ===
\* C9: at most one consumer task of the worker is alive at any time.
C9_SingleConsumer ==
    Cardinality({c \in TaskIds : Live(c)}) <= 1

\* =============================================================== C10 ===
\* C10: the embedding model is constructed at most once, every encode call
\* is made on the constructed model, and a handle once set is never replaced
\* or reset.
C10_InitializeOnce ==
    /\ [](/\ loadCount <= 1
          /\ None \notin encodedWith
          /\ encodedWith \subseteq {embedding_model})
    /\ [][embedding_model # None => embedding_model' = embedding_model]_vars

\* start() ran MaxTasks times, and both a consumer's batch and a
\* process_tables call went through _load_embedding_model and encode.
C10_Witness ==
    /\ loadCount = 1
    /\ encodedWith = {1}
    /\ \E b \in processed : b.called
    /\ lastCall.site = "tables"
    /\ Len(tasks) = MaxTasks

\* ------------------------------------------- derived notions (RAGWorker) ---
\* retrieve_evidence has returned in the current call: `pool` is what it
\* gathered and `evidence` what it returned.
Retrieved == call \in {"process_question", "retrieve_evidence"} /\ "RETRIEVE" \in Range(visited)
\* generate_answer has returned in the current call.
Answered == answer # Nothing
\* The plan of the current call is one the spec's AnswerPlan admits.  The
\* claims about what a call returns are stated for these plans.
ValidPlan == plan # Nothing /\ plan.max_evidence >= 1 /\ plan.confidence_threshold >= 0
Insufficient(a) == a.reasoning.approach = "insufficient_evidence"
Zero == Frac(0, 1)

\* =============================================================== C11 ===
\* C11: the list retrieve_evidence returns is ordered by score descending,
\* and items of equal score by (document_id, page) ascending.
RankedBefore(a, b) ==
    \/ a.score > b.score
    \/ /\ a.score = b.score
       /\ \/ a.document_id < b.document_id
          \/ a.document_id = b.document_id /\ a.page <= b.page

C12_TopK ==
    (Retrieved /\ plan.max_evidence >= 0) =>
        /\ Len(evidence) <= plan.max_evidence
        /\ Range(evidence) \subseteq Range(pool)
        /\ \A c \in Range(pool) \ Range(evidence) : \A e \in Range(evidence) :
              c.score <= e.score

\* More was gathered than the plan allows, not in the order of the scores,
\* and something of a lower score than the returned items was left out.
C12_Witness ==
    /\ Retrieved
    /\ plan.max_evidence >= 1
    /\ Len(pool) > plan.max_evidence
    /\ Len(evidence) = plan.max_evidence
    /\ pool[1].score < pool[Len(pool)].score
    /\ \E c \in Range(pool) \ Range(evidence) : c.score < evidence[Len(evidence)].score

\* =============================================================== C13 ===
\* C13: no item below the score floor is in the list retrieve_evidence
\* returns.  The floor the repository states is the one its test of
\* retrieve_evidence asserts of every returned item: score > 0.
BelowFloor(ev) == ~(ev.score > 0)

C14_EmptyRetrieval ==
    /\ (Retrieved /\ pool = <<>>) => (evidence = <<>> /\ pc # "raised")
    /\ ("GATE" \in Range(visited) /\ evidence = <<>>) =>
          /\ pc \in {"insufficient", "build", "returned"}
          /\ pc \in {"build", "returned"} =>
                /\ Insufficient(answer)
                /\ answer.confidence = Zero
                /\ answer.citations = <<>>
          /\ (pc = "returned" /\ call = "process_question") =>
                /\ Insufficient(result)
                /\ result.confidence = Zero
                /\ result.citations = <<>>
                /\ result.evidence_used = 0

\* process_question has returned its result for a question with nothing to
\* retrieve.
C14_Witness ==
    /\ call = "process_question"
    /\ pc = "returned"
    /\ pool = <<>>
    /\ Insufficient(result)

\* =============================================================== C15 ===
\* C15: a process_question call goes through PLAN, RETRIEVE, GATE and then
\* one of SYNTHESIZE and INSUFFICIENT_EVIDENCE, each once, in this order, and
\* is where that history puts it: it has returned a result only with all four
\* behind it, and a call that raised has no result.
StageOrder(last) == <<"PLAN", "RETRIEVE", "GATE", last>>
IsPrefix(s, t) == Len(s) <= Len(t) /\ \A i \in 1..Len(s) : s[i] = t[i]

C15_StateMachine ==
    call = "process_question" =>
        /\ \E last \in {"SYNTHESIZE", "INSUFFICIENT_EVIDENCE"} : IsPrefix(visited, StageOrder(last))
        /\ pc = "plan" => visited = <<>>
        /\ pc = "retrieve" => Len(visited) = 1
        /\ pc = "gate" => Len(visited) = 2
        /\ pc \in {"synthesize", "insufficient"} => Len(visited) = 3
        /\ pc \in {"build", "returned"} => Len(visited) = 4
        /\ pc = "returned" <=> result # Nothing
        /\ pc = "raised" => result = Nothing

\* A call has returned after a synthesis.
C15_Witness ==
    /\ call = "process_question"
    /\ pc = "returned"
    /\ visited = StageOrder("SYNTHESIZE")
    /\ result # Nothing

\* =============================================================== C16 ===
\* The gate the claims C16, C17 and C20 speak of: some item of the evidence
\* has a score at or above plan.confidence_threshold.
PassesGate(ev, p) == \E i \in 1..Len(ev) : ev[i].score >= p.confidence_threshold

\* C16: for a non-empty evidence list with every score below
\* plan.confidence_threshold generate_answer returns the insufficient-evidence
\* answer, confidence 0.0 and no citations; with a score at or above the
\* threshold it does not.
C16_GateMonotonic ==
    (Answered /\ ValidPlan) =>
        /\ (evidence # <<>> /\ ~PassesGate(evidence, plan)) =>
              /\ Insufficient(answer)
              /\ answer.confidence = Zero
              /\ answer.citations = <<>>
        /\ PassesGate(evidence, plan) => ~Insufficient(answer)

\* =============================================================== C17 ===
\* C17: an answer has confidence 0.0 and no citations exactly when the
\* evidence did not pass the gate.
C17_ZeroIffGateFailed ==
    (Answered /\ ValidPlan) =>
        ((FracEq(answer.confidence, Zero) /\ answer.citations = <<>>)
            <=> ~PassesGate(evidence, plan))

C19_CitationsWithinPlan ==
    (Answered /\ ValidPlan) => Len(answer.citations) <= plan.max_evidence

\* =============================================================== C20 ===
\* What is left of the evidence behind the gate.
PostGate(ev, p) == IF PassesGate(ev, p) THEN ev ELSE <<>>

CitesItem(c, ev) ==
    /\ c.type = ev.type
    /\ c.document_id = ev.document_id
    /\ c.page = ev.page
    /\ c.score = ev.score
    /\ ev.type = "text_chunk" => c.chunk_id = ev.id
    /\ ev.type = "table" => c.table_id = ev.id

\* C20: the citations of a synthesized answer are one per item of the
\* evidence that passed the gate, in the same order, each with the item's
\* document_id, chunk_id or table_id, page and score, and evidence_count is
\* their number.
C20_CitationCoverage ==
    (Answered /\ ValidPlan /\ ~Insufficient(answer)) =>
        LET kept == PostGate(evidence, plan) IN
        /\ Len(answer.citations) = Len(kept)
        /\ \A i \in 1..Len(kept) : CitesItem(answer.citations[i], kept[i])
        /\ answer.reasoning.evidence_count = Len(kept)

\* =============================================================== C21 ===
\* The characters of the marker '...' that line 174 appends.
EllipsisLen == 3

\* len(snippet): the characters kept of the content, and the marker's.
SnippetLen(s) == s.len + (IF s.ellipsis THEN EllipsisLen ELSE 0)

\* C21: the snippet of every citation is at most 200 characters long, the
\* marker included; content of 200 characters or fewer is copied unchanged.
C21_SnippetBound ==
    (Answered /\ ValidPlan) =>
        \A i \in 1..Len(answer.citations) :
            LET s == answer.citations[i].snippet
                content == evidence[i].content
            IN  /\ SnippetLen(s) <= SnippetMax
                /\ content.len <= SnippetMax =>
                      s = [text |-> content.text, len |-> content.len, ellipsis |-> FALSE]

\* =============================================================== C22 ===
\* The text of the insufficient-evidence answer (line 158): it says that no
\* reliable answer can be given on the available evidence.
InsufficiencyNotice == InsufficientAnswer.text

\* C22: whenever the evidence does not pass the gate, being empty or having
\* every score below the threshold, the answer has confidence 0.0, no
\* citations, a reasoning payload with evidence_count 0 or the number of
\* items below the threshold, and the text of the insufficiency notice.
C22_InsufficientShape ==
    (Answered /\ ValidPlan /\ ~PassesGate(evidence, plan)) =>
        /\ answer.confidence = Zero
        /\ answer.citations = <<>>
        /\ Insufficient(answer)
        /\ answer.reasoning.evidence_count \in {0, Len(evidence)}
        /\ answer.text = InsufficiencyNotice

\* =============================================================== C23 ===
\* What the content of an item says of an attribute, for the two items of
\* test_contradiction_detection ("The optimal temperature is 37 C." and
\* "The optimal temperature is 25 C."); the other items say nothing of one.
Asserts(ev) ==
    CASE ev.id = "chunk-3" -> [attribute |-> "optimal temperature", value |-> 37]
      [] ev.id = "chunk-4" -> [attribute |-> "optimal temperature", value |-> 25]
      [] OTHER -> Nothing

\* Two items assert incompatible values for the same attribute.
Contradict(x, y) ==
    /\ Asserts(x) # Nothing
    /\ Asserts(y) # Nothing
    /\ Asserts(x).attribute = Asserts(y).attribute
    /\ Asserts(x).value # Asserts(y).value

\* The pairs of items at or above the threshold that contradict each other.
ContradictingPairs(ev, p) ==
    {<<i, j>> \in (1..Len(ev)) \X (1..Len(ev)) :
        /\ i < j
        /\ ev[i].score >= p.confidence_threshold
        /\ ev[j].score >= p.confidence_threshold
        /\ Contradict(ev[i], ev[j])}

\* C23: when two items that pass the gate contradict each other the answer is
\* a synthesized one, its reasoning flags the contradiction, and its
\* confidence is strictly below min(mean score, 0.95), the confidence of the
\* same scores without a contradiction.
C23_ContradictionFlagged ==
    (Answered /\ ValidPlan /\ ContradictingPairs(evidence, plan) # {}) =>
        /\ ~Insufficient(answer)
        /\ "contradictions" \in DOMAIN answer.reasoning
        /\ FracLess(answer.confidence, CapConfidence(AvgScore(evidence)))

\* =============================================================== C24 ===
\* A plan with a negative confidence_threshold or with max_evidence of zero
\* or less.
InvalidPlan ==
    /\ plan # Nothing
    /\ (plan.confidence_threshold < 0 \/ plan.max_evidence <= 0)

\* C24: with an invalid plan no retrieval and no synthesis runs and no answer
\* is made: the plan is rejected before it is used.
C24_InvalidPlanRejected ==
    InvalidPlan =>
        /\ Range(visited) \cap {"RETRIEVE", "SYNTHESIZE"} = {}
        /\ answer = Nothing

\* =============================================================== C25 ===
\* C25: in a process_question call every citation of a text chunk has the id
\* of one of the chunks the caller supplied with the question.
C25_CitesSuppliedChunks ==
    (call = "process_question" /\ Answered) =>
        \A i \in 1..Len(answer.citations) :
            answer.citations[i].type = "text_chunk" =>
                answer.citations[i].chunk_id \in question_data.chunks

\* =============================================================== C26 ===
\* C26: every batch handed to _process_batch has at least 1 and at most
\* batch_size requests; a consumer that is filling holds fewer than batch_size
\* requests, and it leaves the fill phase only with batch_size requests or on
\* a timeout with the queue empty.
C26_BatchSizeBound ==
    /\ [](/\ \A b \in processed : Len(b.batch) >= 1 /\ Len(b.batch) <= batch_size
          /\ \A c \in TaskIds :
               /\ tasks[c].pc = "process" =>
                    Len(tasks[c].batch) >= 1 /\ Len(tasks[c].batch) <= batch_size
               /\ tasks[c].pc = "fill" =>
                    Len(tasks[c].batch) >= 1 /\ Len(tasks[c].batch) < batch_size)
    /\ [][\A c \in TaskIds :
            (tasks[c].pc = "fill" /\ tasks'[c].pc = "process") =>
                \/ Len(tasks'[c].batch) = batch_size
                \/ (request_queue = <<>> /\ tasks'[c].batch = tasks[c].batch)]_vars

\* A consumer has filled its batch up to batch_size, more than one request,
\* and is about to hand it to _process_batch.
C26_Witness ==
    /\ \E c \in TaskIds : tasks[c].pc = "process" /\ Len(tasks[c].batch) = batch_size
    /\ batch_size > 1

\* =============================================================== C27 ===
\* The consumer c hands its batch to _process_batch in this step.
HandsOver(c) == tasks[c].pc = "process" /\ tasks'[c].pc # "process"

\* C27: a consumer that hands over its batch makes one provider call, with
\* the texts of all the requests of the batch; no batch has two calls; and
\* the consumers make no provider call in a step in which no batch is handed
\* over, such as a first-item wait that times out.
C27_OneCallPerBatch ==
    /\ [](\A b1, b2 \in processed :
            /\ b1.called
            /\ b1.texts = [i \in 1..Len(b1.batch) |-> TextOf(b1.batch[i])]
            /\ b1.batch = b2.batch => b1 = b2)
    /\ [][\A c \in TaskIds :
            HandsOver(c) =>
                \E rec \in processed' :
                    /\ rec \notin processed
                    /\ processed' = processed \cup {rec}
                    /\ rec.batch = tasks[c].batch]_vars
    /\ [][processed' # processed => \E c \in TaskIds : HandsOver(c)]_vars
    /\ [][\A c \in TaskIds :
            FirstTimeout(c) => (processed' = processed /\ encodedWith' = encodedWith)]_vars

\* A batch of batch_size requests went to the provider in one call, and a
\* consumer waits for a first item with nothing queued.
C27_Witness ==
    /\ \E b \in processed :
         b.called /\ Len(b.batch) = batch_size /\ Len(b.texts) = batch_size
    /\ \E c \in TaskIds : tasks[c].pc = "wait_first"
    /\ request_queue = <<>>

\* =============================================================== C28 ===
\* The requests of the batch a consumer holds while it collects or hands over.
Holds(c) == IF tasks[c].pc \in {"fill", "process"} THEN Range(tasks[c].batch) ELSE {}

\* C28: every accepted request is dequeued at most once; it is at one
\* position of at most one batch, whether handed over or being collected by
\* some consumer; and a request in a batch is no longer in the queue.
C28_ExactlyOnce ==
    /\ \A i, j \in 1..Len(batched) : i # j => batched[i] # batched[j]
    /\ Range(batched) \subseteq Accepted
    /\ \A r \in Accepted :
         /\ Cardinality({b \in processed : r \in Range(b.batch)}) <= 1
         /\ \A b \in processed : Count(b.batch, r) <= 1
         /\ \A c \in TaskIds :
              /\ Count(tasks[c].batch, r) <= 1
              /\ r \in Holds(c) =>
                   /\ r \in Range(batched)
                   /\ r \notin Range(request_queue)
                   /\ \A b \in processed : r \notin Range(b.batch)
                   /\ \A d \in TaskIds \ {c} : r \notin Holds(d)
         /\ (\E b \in processed : r \in Range(b.batch)) =>
              r \in Range(batched) /\ r \notin Range(request_queue)

\* Two consumers each collect a batch of their own while producers have had
\* MaxRequests requests accepted.
C28_Witness ==
    /\ Len(batched) = MaxRequests
    /\ \E c, d \in TaskIds : c # d /\ Holds(c) # {} /\ Holds(d) # {}

\* =============================================================== C29 ===
\* The request r is in a batch with which the provider was called.
HandedToProvider(r) == \E b \in processed : b.called /\ r \in Range(b.batch)

C30_ChunksByPosition ==
    /\ [](lastCall.site = "chunks" =>
            /\ lastCall.texts = [i \in 1..Len(lastCall.texts) |-> ChunkText(i)]
            /\ Len(lastCall.out) = Len(lastCall.texts)
            /\ Len(lastCall.attached) = Len(lastCall.texts)
            /\ \A i \in 1..Len(lastCall.texts) :
                 /\ lastCall.out[i] = Vec(ChunkText(i))
                 /\ lastCall.attached[i] = [req |-> i, emb |-> lastCall.out[i]])
    /\ [][lastCall' # lastCall =>
            /\ request_queue' = request_queue
            /\ putters' = putters
            /\ nextId' = nextId
            /\ batched' = batched
            /\ tasks' = tasks
            /\ processed' = processed]_vars
    /\ [][(lastCall' # lastCall /\ lastCall' = EmptyChunksCall) =>
            /\ encodedWith' = encodedWith
            /\ loadCount' = loadCount
            /\ embedding_model' = embedding_model]_vars

\* A call with MaxChunkList chunks, more than one, returned while a request
\* waits in the queue and a consumer task runs.
C30_Witness ==
    /\ lastCall.site = "chunks"
    /\ Len(lastCall.attached) = MaxChunkList
    /\ MaxChunkList > 1
    /\ request_queue # <<>>
    /\ \E c \in TaskIds : Running(c)

=============================================================================
